---- MODULE Spec2Model ----
(***************************************************************************)
(* DrmPageFlipHandler (src/common/drm/drmlegacypagefliphandler.h, second   *)
(* half of the file): the per-display page-flip orchestrator, its          *)
(* retirement Timeline and the completion/timeout paths.                   *)
(*                                                                         *)
(* Every public operation runs under ScopedSpinLock _l(mLock), so each is  *)
(* one atomic action.  The handler state is passed through the helper      *)
(* operators as a record h and written back by Commit.                     *)
(*                                                                         *)
(* flip(), retire() and doRetire() are modelled as written (lines 341-461). *)
(* waitForFlipCompletion() is modelled as the file leaves it: its wait     *)
(* loop sits between #ifdef uncomment and #endif and what remains returns  *)
(* true at once.  HWCASSERT is fatal in a debug build and a no-op in a     *)
(* release build: a failing assertion either aborts or is passed.          *)
(*                                                                         *)
(* Integers: uint32_t is scaled to WidthBits bits (UINT32 == 2^WidthBits); *)
(* all uint32_t arithmetic is taken modulo UINT32 and int32_t casts are    *)
(* two's complement of the same width.                                     *)
(***************************************************************************)
EXTENDS Integers, FiniteSets, Sequences, TLC

\* ------------------------------------------------------------------ bounds
\* Width of uint32_t/int32_t in the model.
WidthBits == 2
\* Largest timeline index carried by a frame handed to flip()/releaseTo().
MaxIdx == 3
\* Most frames the producer holds registered and not yet handed to flip().
MaxQueue == 2
\* Most commits issued while their completion events are followed.
MaxCommit == 2

UINT32 == 2 ^ WidthBits
UINT32_MAX == UINT32 - 1

\* The configured flip timeout (member mTimeoutFlip, compared at line 332).
mTimeoutFlip == 1

Max(a, b) == IF a >= b THEN a ELSE b
Min(a, b) == IF a <= b THEN a ELSE b

\* (uint32_t)x
U32(x) == x % UINT32
\* int32_t(x) of a uint32_t value
I32(x) == IF x < UINT32 \div 2 THEN x ELSE x - UINT32

\* ------------------------------------------------------------------ frames
\* DisplayQueue::Frame as far as the handler reads it: getFrameId().isValid()
\* and getFrameId().getTimelineIndex().  NULL is the null Frame pointer.
NULL == [idx |-> -1, valid |-> FALSE]
FrameIdx == 0 .. Min(MaxIdx, UINT32_MAX)
Frames == [idx : FrameIdx, valid : BOOLEAN]

\* mpImpl: which AbstractImpl is bound.
Impls == {"Nuclear", "SetDisplay", "Legacy"}

VARIABLES
    mbInit,              \* init flag
    mpImpl,              \* bound strategy, "NULL" when none
    mpLastFlippedFrame,  \* frame whose commit is outstanding, or NULL
    mpCurrentFrame,      \* frame on screen, or NULL
    mMainPlaneIndex,     \* index of the main plane, -1 when none was found
    mTimeline,           \* [current, future]
    sinceFlip,           \* systemTime(SYSTEM_TIME_MONOTONIC) - mLastPageFlipTime
    planealloc,          \* value of Option "planealloc"
    caps,                \* what the display's capability probes report
    aborted,             \* a HWCASSERT failed in a build where it is fatal
    last,                \* history: the last call and what it returned
    run,                 \* history: shape of the run so far
    lastReal,            \* history: index of the last valid frame completed
    owed,                \* history: index of a valid frame replaced on screen
                         \* by the last completion and not released by it
    queue,               \* producer: indices registered, frames not yet built
    submitted,           \* producer: index of the last frame handed over
    serial,              \* number of commits issued that requested an event
    events               \* commits whose completion event is still in flight

vars == <<mbInit, mpImpl, mMainPlaneIndex, mpLastFlippedFrame, mpCurrentFrame,
          mTimeline, sinceFlip, planealloc, caps, aborted, last, run, lastReal,
          owed, queue, submitted, serial, events>>

\* The handler's mutable state as one record, with what the running call
\* has done outside the handler so far: released = the frames passed to
\* mDisplay.releaseFlippedFrame, notified = the mDisplay.notifyReady calls,
\* probed = the strategies whose test() was consulted, created = the
\* strategy constructed, regress = mTimeline.advanceTo was called with a
\* point below the released point.
Handler ==
    [mbInit |-> mbInit, mpImpl |-> mpImpl,
     mMainPlaneIndex |-> mMainPlaneIndex,
     mpLastFlippedFrame |-> mpLastFlippedFrame,
     mpCurrentFrame |-> mpCurrentFrame,
     mTimeline |-> mTimeline, sinceFlip |-> sinceFlip,
     released |-> <<>>, notified |-> 0, probed |-> <<>>, created |-> "NULL",
     regress |-> FALSE]

Commit(h) ==
    /\ mbInit' = h.mbInit
    /\ mpImpl' = h.mpImpl
    /\ mMainPlaneIndex' = h.mMainPlaneIndex
    /\ mpLastFlippedFrame' = h.mpLastFlippedFrame
    /\ mpCurrentFrame' = h.mpCurrentFrame
    /\ mTimeline' = h.mTimeline
    /\ sinceFlip' = h.sinceFlip

\* ---------------------------------------------------------------- Timeline
\* Timeline::advanceTo(n): current = max(current, n).
TimelineAdvanceTo_Assign(t, n) == [t EXCEPT !.current = n]
TimelineAdvanceTo(t, n) == [t EXCEPT !.current = Max(t.current, n)]

\* Timeline::advance(delta) = advanceTo(current + delta), in uint32_t.
TimelineAdvance(t, delta) == TimelineAdvanceTo(t, U32(t.current + delta))

\* Timeline::createFence(out idx): future is incremented (uint32_t) and the
\* new point is the index.  Timeline::repeatFence(out idx): the index is the
\* present future point.
TimelineCreateFence(t) == [t EXCEPT !.future = U32(@ + 1)]
TimelineRepeatFence(t) == t
TimelineIndex(t) == t.future

\* A fence of point idx is resolved once current >= idx.
TimelineResolved(t, idx) == t.current >= idx

\* mTimeline.advanceTo( n ) and mTimeline.advance( delta ) as the handler
\* calls them; a point below the released point is the contract violation.
mTimeline_advanceTo(h, n) ==
    [h EXCEPT !.mTimeline = TimelineAdvanceTo(@, n),
              !.regress = @ \/ n < h.mTimeline.current]
mTimeline_advance(h, delta) ==
    [h EXCEPT !.mTimeline = TimelineAdvance(@, delta),
              !.regress = @ \/ U32(h.mTimeline.current + delta) < h.mTimeline.current]

\* ------------------------------------------------------------ the handler
\* isOutstandingFlipWork(): a commit was issued and not yet completed.
isOutstandingFlipWork(h) == h.mpLastFlippedFrame # NULL

\* doRetire(pNewFrame): advance immediately to the frame's own index.
doRetire_Before(h, pNewFrame) ==
    mTimeline_advanceTo(h, U32(pNewFrame.idx + UINT32 - 1))
doRetire(h, pNewFrame) ==
    LET releaseTo == pNewFrame.idx
    IN  mTimeline_advanceTo(h, releaseTo)

\* waitForFlipCompletion(): the waitRelative loop is preprocessed out
\* (#ifdef uncomment ... #endif); what is left returns true at once.
waitForFlipCompletion(h) == TRUE

\* retirePreviousFrames(pNewFrame), called with mpCurrentFrame still the
\* previously displayed frame.
retirePreviousFrames_Inclusive(h, pNewFrame) ==
    IF pNewFrame.valid
    THEN mTimeline_advanceTo(h, pNewFrame.idx)
    ELSE IF h.mpCurrentFrame # NULL /\ h.mpCurrentFrame.valid
    THEN LET currentFrameTime == h.mpCurrentFrame.idx
             currentTimeline == h.mTimeline.current
             advance == I32(U32(currentFrameTime + UINT32 - currentTimeline))
         IN  IF advance > 0
             THEN mTimeline_advance(h, advance)
             ELSE h
    ELSE h
retirePreviousFrames_NoSynthetic(h, pNewFrame) ==
    IF pNewFrame.valid
    THEN mTimeline_advanceTo(h, U32(pNewFrame.idx + UINT32 - 1))
    ELSE h
retirePreviousFrames(h, pNewFrame) ==
    IF pNewFrame.valid
    THEN LET releaseTo == U32(pNewFrame.idx + UINT32 - 1)
         IN  mTimeline_advanceTo(h, releaseTo)
    ELSE IF h.mpCurrentFrame # NULL /\ h.mpCurrentFrame.valid
    THEN LET currentFrameTime == h.mpCurrentFrame.idx
             currentTimeline == h.mTimeline.current
             advance == I32(U32(currentFrameTime + UINT32 - currentTimeline))
         IN  IF advance > 0
             THEN mTimeline_advance(h, advance)
             ELSE h
    ELSE h

\* completeFlip(): callers guarantee mpLastFlippedFrame # NULL.
completeFlip_ReleasePending(h) ==
    LET h0 == IF h.mpCurrentFrame # NULL
              THEN [h EXCEPT !.released = Append(@, h.mpLastFlippedFrame)]
              ELSE h
        h1 == retirePreviousFrames(h0, h.mpLastFlippedFrame)
    IN  [h1 EXCEPT !.mpCurrentFrame = h.mpLastFlippedFrame,
                   !.mpLastFlippedFrame = NULL,
                   !.notified = @ + 1]
completeFlip(h) ==
    LET h0 == IF h.mpCurrentFrame # NULL
              THEN [h EXCEPT !.released = Append(@, h.mpCurrentFrame)]
              ELSE h
        h1 == retirePreviousFrames(h0, h.mpLastFlippedFrame)
    IN  [h1 EXCEPT !.mpCurrentFrame = h.mpLastFlippedFrame,
                   !.mpLastFlippedFrame = NULL,
                   !.notified = @ + 1]

\* doSync(): force completion only when the wait fails.
doSync(h) ==
    IF isOutstandingFlipWork(h)
    THEN IF ~waitForFlipCompletion(h)
         THEN IF isOutstandingFlipWork(h) THEN completeFlip(h) ELSE h
         ELSE h
    ELSE h

\* ----------------------------------------------------------------- history
\* op: the call; ret: what flip/readyForFlip returned; had: a commit was
\* outstanding when flip/readyForFlip was entered; retired: the frame
\* handed to doRetire, NULL when none was; between: the call completed a
\* valid frame that replaced a synthetic frame on screen, after a valid
\* frame had been completed earlier in an unbroken run; released, notified,
\* probed, created, regress: what the call did outside the handler (see
\* Handler); idx: the timeline index a register call returned; token: the
\* event token the event thread decoded; again: the call before this
\* registerRepeatFutureFrame was one too; commit: the commit whose
\* completion event the call delivered, 0 when it delivered none.
Call(op) ==
    [op |-> op, ret |-> FALSE, had |-> FALSE, retired |-> NULL,
     between |-> FALSE, released |-> <<>>, notified |-> 0, probed |-> <<>>,
     created |-> "NULL", regress |-> FALSE, idx |-> -1, token |-> -1,
     again |-> FALSE, commit |-> 0]

Effects(l, g) ==
    [l EXCEPT !.released = g.released, !.notified = g.notified,
              !.probed = g.probed, !.created = g.created,
              !.regress = g.regress]

\* A run stays "real" while it consists of init, successful flips of valid
\* frames with strictly increasing indices >= 1, each issued with no commit
\* outstanding, and their completions; "mixed" when synthetic frames were
\* flipped the same way in between; "broken" otherwise.
Completed(h, g) == isOutstandingFlipWork(h) /\ ~isOutstandingFlipWork(g)

Between(h, g) ==
    /\ Completed(h, g)
    /\ run # "broken"
    /\ h.mpLastFlippedFrame.valid
    /\ h.mpCurrentFrame # NULL
    /\ ~h.mpCurrentFrame.valid
    /\ lastReal >= 1

\* owed: the valid frame a completion replaced on screen, while the
\* released point is still below its index.
Owed(h, g) ==
    LET o == IF Completed(h, g)
             THEN IF h.mpCurrentFrame # NULL /\ h.mpCurrentFrame.valid
                  THEN h.mpCurrentFrame.idx ELSE -1
             ELSE owed
    IN  IF g.mTimeline.current >= o THEN -1 ELSE o

History(h, g, r) ==
    /\ run' = r
    /\ lastReal' = IF r = "broken" THEN 0
                   ELSE IF Completed(h, g) /\ h.mpLastFlippedFrame.valid
                        THEN h.mpLastFlippedFrame.idx
                        ELSE lastReal
    /\ owed' = Owed(h, g)

\* The state after construction (lines 186-197), whatever the display.
Constructed ==
    /\ mbInit = FALSE
    /\ mpImpl = "NULL"
    /\ mMainPlaneIndex = -1
    /\ mpLastFlippedFrame = NULL
    /\ mpCurrentFrame = NULL
    /\ mTimeline = [current |-> 0, future |-> 0]
    /\ sinceFlip = 0
    /\ aborted = FALSE
    /\ last = Call("none")
    /\ run = "real"
    /\ lastReal = 0
    /\ owed = -1
    /\ queue = <<>>
    /\ submitted = 0
    /\ serial = 0
    /\ events = <<>>

\* A display with one plane, the main plane, and no atomic API.
Init ==
    /\ Constructed
    /\ planealloc = TRUE
    /\ caps = [nuclear |-> FALSE, setDisplay |-> FALSE,
               planes |-> <<"PLANE_TYPE_MAIN">>]

\* ----------------------------------------------------------------- actions
\* init().  The capability probes are static and side-effect-free: what
\* they report is a property of the display (caps), FALSE also when the
\* variant is compiled out.  planealloc is TRUE when Option "planealloc"
\* is registered and non-zero.

\* The loop over the planes (lines 227-236); planes are numbered from 0.
mainPlaneIndex(planes) ==
    LET mains == {p \in 1 .. Len(planes) : planes[p] = "PLANE_TYPE_MAIN"}
    IN  IF mains = {} THEN -1
        ELSE (CHOOSE p \in mains : \A q \in mains : p <= q) - 1

\* Lines 241-258, entered with mpImpl = NULL.
selectImpl_SetDisplayFirst(h) ==
    LET s == [h EXCEPT !.probed = Append(@, "SetDisplay")]
    IN  IF caps.setDisplay
        THEN [s EXCEPT !.mpImpl = "SetDisplay", !.created = "SetDisplay"]
        ELSE LET n == [s EXCEPT !.probed = Append(@, "Nuclear")]
             IN  IF caps.nuclear
                 THEN [n EXCEPT !.mpImpl = "Nuclear", !.created = "Nuclear"]
                 ELSE [n EXCEPT !.mpImpl = "Legacy", !.created = "Legacy"]
selectImpl(h) ==
    LET n == [h EXCEPT !.probed = Append(@, "Nuclear")]
    IN  IF caps.nuclear
        THEN [n EXCEPT !.mpImpl = "Nuclear", !.created = "Nuclear"]
        ELSE LET s == [n EXCEPT !.probed = Append(@, "SetDisplay")]
             IN  IF caps.setDisplay
                 THEN [s EXCEPT !.mpImpl = "SetDisplay", !.created = "SetDisplay"]
                 ELSE [s EXCEPT !.mpImpl = "Legacy", !.created = "Legacy"]

initBody_NoEarlyReturn(h) ==
    LET h1 == [h EXCEPT !.mMainPlaneIndex = mainPlaneIndex(caps.planes),
                        !.mpImpl = "NULL"]
    IN  [selectImpl(h1) EXCEPT !.mbInit = TRUE]
initBody(h) ==
    IF h.mbInit THEN h
    ELSE LET h1 == [h EXCEPT !.mMainPlaneIndex = mainPlaneIndex(caps.planes),
                             !.mpImpl = "NULL"]
         IN  [selectImpl(h1) EXCEPT !.mbInit = TRUE]

init ==
    /\ ~aborted
    /\ LET h == Handler
           g == initBody(h)
       IN  /\ Commit(g)
           /\ planealloc' = IF g.created = "Legacy" THEN FALSE ELSE planealloc
           /\ History(h, g, run)
           /\ last' = Effects(Call("init"), g)
    /\ UNCHANGED <<aborted, caps, queue, submitted, serial, events>>

\* uninit(): HWCASSERT( !isOutstandingFlipWork() ) after doSync.
uninit ==
    /\ ~aborted
    /\ LET h == Handler
           s == doSync(h)
       IN  IF ~h.mbInit
           THEN /\ UNCHANGED <<mbInit, mpImpl, mMainPlaneIndex, mpLastFlippedFrame,
                               mpCurrentFrame, mTimeline, sinceFlip, aborted,
                               run, lastReal, owed>>
                /\ last' = Call("uninit")
           ELSE \/ /\ isOutstandingFlipWork(s)
                   /\ aborted' = TRUE
                   /\ UNCHANGED <<mbInit, mpImpl, mMainPlaneIndex,
                                  mpLastFlippedFrame, mpCurrentFrame, mTimeline,
                                  sinceFlip, last, run, lastReal, owed>>
                \/ /\ Commit([s EXCEPT !.mpImpl = "NULL", !.mbInit = FALSE])
                   /\ History(h, s, run)
                   /\ last' = Effects([Call("uninit") EXCEPT
                                          !.between = Between(h, s)], s)
                   /\ UNCHANGED aborted
    /\ UNCHANGED <<planealloc, caps, queue, submitted, serial, events>>

\* registerNextFutureFrame(pTimelineIndex): no lock is taken.
registerNextFutureFrameBody_Repeat(h) ==
    [h EXCEPT !.mTimeline = TimelineRepeatFence(@)]
registerNextFutureFrameBody(h) ==
    [h EXCEPT !.mTimeline = TimelineCreateFence(@)]

registerNextFutureFrame ==
    /\ ~aborted
    /\ Len(queue) < MaxQueue
    /\ LET h == Handler
           g == registerNextFutureFrameBody(h)
           pTimelineIndex == TimelineIndex(g.mTimeline)
       IN  /\ Commit(g)
           /\ History(h, g, run)
           /\ last' = [Call("registerNextFutureFrame") EXCEPT
                          !.idx = pTimelineIndex]
           /\ queue' = Append(queue, pTimelineIndex)
    /\ UNCHANGED <<planealloc, caps, aborted, submitted, serial, events>>

\* registerRepeatFutureFrame(pTimelineIndex): no lock is taken.
registerRepeatFutureFrameBody_Next(h) ==
    [h EXCEPT !.mTimeline = TimelineCreateFence(@)]
registerRepeatFutureFrameBody(h) ==
    [h EXCEPT !.mTimeline = TimelineRepeatFence(@)]

registerRepeatFutureFrame ==
    /\ ~aborted
    /\ Len(queue) < MaxQueue
    /\ LET h == Handler
           g == registerRepeatFutureFrameBody(h)
           pTimelineIndex == TimelineIndex(g.mTimeline)
       IN  /\ Commit(g)
           /\ History(h, g, run)
           /\ last' = [Call("registerRepeatFutureFrame") EXCEPT
                          !.idx = pTimelineIndex,
                          !.again = (last.op = "registerRepeatFutureFrame")]
           /\ queue' = Append(queue, pTimelineIndex)
    /\ UNCHANGED <<planealloc, caps, aborted, submitted, serial, events>>

\* releaseTo(timelineIndex)
releaseTo ==
    /\ ~aborted
    /\ \E timelineIndex \in FrameIdx :
         LET h == Handler
             g == mTimeline_advanceTo(h, timelineIndex)
         IN  /\ Commit(g)
             /\ History(h, g, "broken")
             /\ last' = Effects(Call("releaseTo"), g)
    /\ UNCHANGED <<planealloc, caps, aborted, queue, submitted, serial, events>>

\* readyForFlip()
readyForFlipBody_NoOutstandingCheck(h) ==
    LET ela == U32(h.sinceFlip)
    IN  IF ela > mTimeoutFlip THEN completeFlip(h) ELSE h
readyForFlipBody_AtTimeout(h) ==
    IF isOutstandingFlipWork(h)
    THEN LET ela == U32(h.sinceFlip)
         IN  IF ela >= mTimeoutFlip THEN completeFlip(h) ELSE h
    ELSE h
readyForFlipBody(h) ==
    IF isOutstandingFlipWork(h)
    THEN LET ela == U32(h.sinceFlip)
         IN  IF ela > mTimeoutFlip THEN completeFlip(h) ELSE h
    ELSE h

readyForFlip ==
    /\ ~aborted
    /\ LET h == Handler
           g == readyForFlipBody(h)
       IN  /\ Commit(g)
           /\ History(h, g, run)
           /\ last' = Effects([Call("readyForFlip") EXCEPT
                                  !.ret = ~isOutstandingFlipWork(g),
                                  !.had = isOutstandingFlipWork(h),
                                  !.between = Between(h, g)], g)
    /\ UNCHANGED <<planealloc, caps, aborted, queue, submitted, serial, events>>

\* pageFlipEvent()
pageFlipEventBody_NoInitCheck(h) ==
    IF ~isOutstandingFlipWork(h) THEN h
    ELSE completeFlip(h)
pageFlipEventBody_NoOutstandingCheck(h) ==
    IF ~h.mbInit THEN h
    ELSE completeFlip(h)
pageFlipEventBody(h) ==
    IF ~h.mbInit THEN h
    ELSE IF ~isOutstandingFlipWork(h) THEN h
    ELSE completeFlip(h)

pageFlipEvent ==
    /\ ~aborted
    /\ LET h == Handler
           g == pageFlipEventBody(h)
       IN  /\ Commit(g)
           /\ History(h, g, run)
           /\ last' = Effects([Call("pageFlipEvent") EXCEPT
                                  !.between = Between(h, g)], g)
    /\ UNCHANGED <<planealloc, caps, aborted, queue, submitted, serial, events>>

\* sync()
sync ==
    /\ ~aborted
    /\ LET h == Handler
           g == IF ~h.mbInit THEN h ELSE doSync(h)
       IN  /\ Commit(g)
           /\ History(h, g, run)
           /\ last' = Effects([Call("sync") EXCEPT !.between = Between(h, g)], g)
    /\ UNCHANGED <<planealloc, caps, aborted, queue, submitted, serial, events>>

\* Time passes.  sinceFlip is read modulo UINT32 (line 331) and compared
\* with mTimeoutFlip < UINT32, so beyond UINT32 only its residue matters:
\* the count wraps from 2*UINT32 - 1 back to UINT32.
Tick ==
    /\ ~aborted
    /\ sinceFlip' = IF sinceFlip + 1 < 2 * UINT32 THEN sinceFlip + 1 ELSE UINT32
    /\ last' = Call("tick")
    /\ UNCHANGED <<mbInit, mpImpl, mMainPlaneIndex, mpLastFlippedFrame,
                   mpCurrentFrame, mTimeline, planealloc, caps, aborted, run,
                   lastReal, owed, queue, submitted, serial, events>>

\* flip(pNewFrame).  doFlipOk is what mpImpl->doFlip returns.  The blanking
\* layer substitution (lines 361-399) edits the frame's main layer only.
flipBody(h, pNewFrame, doFlipOk) ==
    LET s == IF h.mbInit THEN doSync(h) ELSE h
        bFlipped == h.mbInit /\ s.mpImpl # "NULL" /\ doFlipOk
        g == IF bFlipped
             THEN [s EXCEPT !.sinceFlip = 0, !.mpLastFlippedFrame = pNewFrame]
             ELSE s
    IN  IF ~bFlipped THEN doRetire(g, pNewFrame) ELSE g

flipReturns(h, doFlipOk) ==
    LET s == IF h.mbInit THEN doSync(h) ELSE h
    IN  h.mbInit /\ s.mpImpl # "NULL" /\ doFlipOk

\* HWCASSERT( !isOutstandingFlipWork( ) ) at line 405.
flipAssertFails(h) == h.mbInit /\ isOutstandingFlipWork(doSync(h))

flipRun(h, pNewFrame, bFlipped) ==
    IF run = "broken" \/ ~bFlipped \/ isOutstandingFlipWork(h) THEN "broken"
    ELSE IF ~pNewFrame.valid THEN "mixed"
    ELSE IF pNewFrame.idx >= 1 /\ pNewFrame.idx > lastReal THEN run
    ELSE "broken"

\* One call of flip() on the frame pNewFrame.
flipCall(pNewFrame, doFlipOk) ==
    LET h == Handler
        g == flipBody(h, pNewFrame, doFlipOk)
        bFlipped == flipReturns(h, doFlipOk)
    IN  \/ /\ flipAssertFails(h)
           /\ aborted' = TRUE
           /\ UNCHANGED <<mbInit, mpImpl, mMainPlaneIndex, mpLastFlippedFrame,
                          mpCurrentFrame, mTimeline, sinceFlip, last, run,
                          lastReal, owed>>
        \/ /\ Commit(g)
           /\ History(h, g, flipRun(h, pNewFrame, bFlipped))
           /\ last' = Effects([Call("flip") EXCEPT
                                  !.ret = bFlipped,
                                  !.had = isOutstandingFlipWork(h),
                                  !.retired = IF bFlipped THEN NULL ELSE pNewFrame,
                                  !.between = Between(h, g)], g)
           /\ UNCHANGED aborted

flip ==
    /\ ~aborted
    /\ \E pNewFrame \in Frames, doFlipOk \in BOOLEAN :
         flipCall(pNewFrame, doFlipOk)
    /\ UNCHANGED <<planealloc, caps, queue, submitted, serial, events>>

Next ==
    \/ init
    \/ uninit
    \/ releaseTo
    \/ readyForFlip
    \/ flip
    \/ pageFlipEvent
    \/ sync
    \/ Tick

Spec == Init /\ [][Next]_vars

TypeOK ==
    /\ mbInit \in BOOLEAN
    /\ mpImpl \in Impls \cup {"NULL"}
    /\ mMainPlaneIndex \in -1 .. 1
    /\ mpLastFlippedFrame \in Frames \cup {NULL}
    /\ mpCurrentFrame \in Frames \cup {NULL}
    /\ mTimeline \in [current : 0 .. UINT32_MAX, future : 0 .. UINT32_MAX]
    /\ sinceFlip \in 0 .. 2 * UINT32 - 1
    /\ run \in {"real", "mixed", "broken"}
    /\ lastReal \in FrameIdx
    /\ owed \in -1 .. UINT32_MAX
    /\ Len(queue) <= MaxQueue
    /\ submitted \in 0 .. UINT32_MAX
    /\ serial \in 0 .. MaxCommit
    /\ \A e \in 1 .. Len(events) : events[e] \in 1 .. serial

\* ------------------------------------------------- lost completion events
\* The producer of the display queue: flips only once readyForFlip() has
\* shown that no commit is outstanding.
flipWhenReady == ~isOutstandingFlipWork(Handler) /\ flip

\* The completion event of every commit is lost: pageFlipEvent never runs.
NextLost ==
    \/ init
    \/ flipWhenReady
    \/ readyForFlip
    \/ sync
    \/ Tick

\* readyForFlip() and sync() keep being called and time keeps advancing.
SpecLost ==
    /\ Init
    /\ [][NextLost]_vars
    /\ WF_vars(Tick)
    /\ WF_vars(readyForFlip)
    /\ WF_vars(sync)

\* ------------------------------------------------------ displays of any kind
\* Any display: either atomic API supported or not, planes with or without
\* a main plane, the plane allocator enabled or not.
InitCaps ==
    /\ Constructed
    /\ planealloc \in BOOLEAN
    /\ caps \in [nuclear : BOOLEAN, setDisplay : BOOLEAN,
                 planes : {<<>>, <<"PLANE_TYPE_SPRITE", "PLANE_TYPE_MAIN">>}]

NextCaps ==
    \/ init
    \/ uninit
    \/ flip
    \/ pageFlipEvent
    \/ readyForFlip

SpecCaps == InitCaps /\ [][NextCaps]_vars

\* ------------------------------------------------- frames from the Timeline
\* The producer registers a frame with the Timeline (queue), builds it and
\* hands it to flip() or retire() in the order of registration; a frame
\* built that way has a valid FrameId.  An inserted frame (blanking) has no
\* valid FrameId; it carries the index of the last frame handed over.  The
\* producer calls flip() only while no commit is outstanding.
flipQueued ==
    /\ ~aborted
    /\ ~isOutstandingFlipWork(Handler)
    /\ queue # <<>>
    /\ \E doFlipOk \in BOOLEAN :
         flipCall([idx |-> Head(queue), valid |-> TRUE], doFlipOk)
    /\ queue' = Tail(queue)
    /\ submitted' = Head(queue)
    /\ UNCHANGED <<planealloc, caps, serial, events>>

flipInserted ==
    /\ ~aborted
    /\ ~isOutstandingFlipWork(Handler)
    /\ \E doFlipOk \in BOOLEAN :
         flipCall([idx |-> submitted, valid |-> FALSE], doFlipOk)
    /\ UNCHANGED <<planealloc, caps, queue, submitted, serial, events>>

\* retire(pNewFrame): the frame is dropped without being flipped.
retireQueued ==
    /\ ~aborted
    /\ queue # <<>>
    /\ LET h == Handler
           pNewFrame == [idx |-> Head(queue), valid |-> TRUE]
           g == doRetire(h, pNewFrame)
       IN  /\ Commit(g)
           /\ History(h, g, "broken")
           /\ last' = Effects([Call("retire") EXCEPT !.retired = pNewFrame], g)
    /\ queue' = Tail(queue)
    /\ submitted' = Head(queue)
    /\ UNCHANGED <<planealloc, caps, aborted, serial, events>>

NextTimeline ==
    \/ init
    \/ uninit
    \/ registerNextFutureFrame
    \/ registerRepeatFutureFrame
    \/ flipQueued
    \/ flipInserted
    \/ retireQueued
    \/ readyForFlip
    \/ pageFlipEvent
    \/ sync
    \/ Tick

SpecTimeline == Init /\ [][NextTimeline]_vars

\* ---------------------------------------------------------- the event thread
\* DrmEventThread: a completion event carries the token the commit was
\* issued with, encodeIndex( getDrmDisplayID() ) (line 416); the thread
\* decodes it and dispatches pageFlipEvent() to the display it finds.
MaxToken == 2
Tokens == 0 .. MaxToken
getDrmDisplayID == 0
Displays == {getDrmDisplayID}
encodeIndex(index) == index + 1
decodeIndex(token) == token - 1

handleEvent ==
    /\ ~aborted
    /\ \E token \in Tokens :
         LET h == Handler
             g == IF decodeIndex(token) \in Displays
                  THEN pageFlipEventBody(h)
                  ELSE h
         IN  /\ Commit(g)
             /\ History(h, g, run)
             /\ last' = Effects([Call("event") EXCEPT
                                    !.token = token,
                                    !.between = Between(h, g)], g)
    /\ UNCHANGED <<planealloc, caps, aborted, queue, submitted, serial, events>>

NextEvent ==
    \/ init
    \/ uninit
    \/ flip
    \/ handleEvent

SpecEvent == Init /\ [][NextEvent]_vars

\* ------------------------------------------- completion events in flight
\* A commit issued by flip() requests one completion event from the kernel
\* (eventData, lines 416-417); the events of one display are delivered in
\* the order of their commits, each at any time after its commit or never.
\* The token identifies the display, not the commit.  The producer calls
\* flip() only once readyForFlip() has shown no commit outstanding.  A
\* Frame object is identified by its FrameId: flipping the same element of
\* Frames again is flipping the same object again.
flipIssued ==
    /\ ~aborted
    /\ ~isOutstandingFlipWork(Handler)
    /\ serial < MaxCommit
    /\ \E pNewFrame \in Frames, doFlipOk \in BOOLEAN :
         /\ flipCall(pNewFrame, doFlipOk)
         /\ IF flipReturns(Handler, doFlipOk)
            THEN /\ serial' = serial + 1
                 /\ events' = Append(events, serial + 1)
            ELSE UNCHANGED <<serial, events>>
    /\ UNCHANGED <<planealloc, caps, queue, submitted>>

\* The event thread delivers the oldest event in flight: pageFlipEvent().
pageFlipEventDelivered ==
    /\ ~aborted
    /\ events # <<>>
    /\ LET h == Handler
           g == pageFlipEventBody(h)
       IN  /\ Commit(g)
           /\ History(h, g, run)
           /\ last' = Effects([Call("pageFlipEvent") EXCEPT
                                  !.commit = Head(events),
                                  !.between = Between(h, g)], g)
    /\ events' = Tail(events)
    /\ UNCHANGED <<planealloc, caps, aborted, queue, submitted, serial>>

NextRace ==
    \/ init
    \/ flipIssued
    \/ pageFlipEventDelivered
    \/ readyForFlip
    \/ sync
    \/ Tick

SpecRace == Init /\ [][NextRace]_vars

\* ------------------------------------------------------------------ claims
Released == mTimeline.current

\* C1: Timeline.current is non-decreasing: no step of any operation leaves
\* the released point lower than it was before the step.
C1_CurrentNonDecreasing == [][mTimeline'.current >= mTimeline.current]_vars

\* A frame with an index below the released point was retired and the
\* released point stayed where it was.
C1_Witness ==
    /\ last.op = "flip"
    /\ last.retired # NULL
    /\ last.retired.idx < Released
    /\ mpCurrentFrame # NULL

\* C2: flip() never delegates a new commit to the bound strategy while a
\* previously issued commit is still outstanding.
C2_OneOutstandingCommit == (last.op = "flip" /\ mbInit) => ~last.had

\* C3: valid frames with strictly increasing indices, flipped in order and
\* each completed before the next is issued: after the completion of the
\* frame with index N the released point is N - 1.
C3_InOrderRelease ==
    (run = "real" /\ mpLastFlippedFrame = NULL /\ mpCurrentFrame # NULL)
        => Released = mpCurrentFrame.idx - 1

C3_Witness ==
    /\ run = "real"
    /\ last.op = "pageFlipEvent"
    /\ mpLastFlippedFrame = NULL
    /\ mpCurrentFrame # NULL
    /\ mpCurrentFrame.idx >= 2
    /\ lastReal = mpCurrentFrame.idx
    /\ Released = mpCurrentFrame.idx - 1

\* C4: a completion never regresses the released point; the completion of
\* a synthetic frame over a valid frame A advances the released point to A
\* exactly when A is ahead of it and otherwise leaves it unchanged; and in
\* an unbroken run the completion of the valid frame B that follows the
\* synthetic frame leaves the released point at B - 1.
C4_SyntheticBetweenReal ==
    [][(mpLastFlippedFrame # NULL /\ mpLastFlippedFrame' = NULL) =>
         /\ mTimeline'.current >= mTimeline.current
         /\ (~mpLastFlippedFrame.valid /\ mpCurrentFrame # NULL
                 /\ mpCurrentFrame.valid)
              => mTimeline'.current =
                     IF mpCurrentFrame.idx > mTimeline.current
                     THEN mpCurrentFrame.idx ELSE mTimeline.current
         /\ last'.between => mTimeline'.current = mpLastFlippedFrame.idx - 1
      ]_vars

C4_Witness ==
    /\ last.between
    /\ mpCurrentFrame.valid
    /\ Released = mpCurrentFrame.idx - 1
    /\ Released >= 1

RetiresAtOrAfter(l, n) ==
    l.op = "flip" /\ l.retired # NULL /\ l.retired.idx >= n

C6_TimeoutForcesCompletion ==
    (last.op = "readyForFlip" /\ last.had /\ sinceFlip > mTimeoutFlip)
        => (last.ret /\ mpLastFlippedFrame = NULL)

\* C7: when sync() returns on an initialised handler no flip work is
\* outstanding.
C7_SyncLeavesNoWork ==
    (last.op = "sync" /\ mbInit) => mpLastFlippedFrame = NULL

\* C8: an uninitialised handler has no pending frame, and uninit() releases
\* the bound strategy and clears the init flag.
C8_UninitLeavesNoWork ==
    /\ ~mbInit => mpLastFlippedFrame = NULL
    /\ last.op = "uninit" => (~mbInit /\ mpImpl = "NULL")

\* C9: with the completion event lost, repeated readyForFlip()/sync() calls
\* and advancing time, an outstanding commit is eventually completed.
C9_LostEventRecovers ==
    (mpLastFlippedFrame # NULL) ~> (mpLastFlippedFrame = NULL)

\* C10: a flip that is not issued (handler uninitialised, or the strategy
\* reports failure) returns false, leaves the pending frame as it was and
\* returns with the released point at or beyond the frame's own index.
C10_NotIssuedIsRetired ==
    [][(last'.op = "flip" /\ ~aborted')
       => /\ ~mbInit' => ~last'.ret
          /\ ~last'.ret =>
               /\ last'.retired # NULL
               /\ mpLastFlippedFrame' = mpLastFlippedFrame
               /\ mTimeline'.current >= last'.retired.idx
      ]_vars

\* The strategy failed to issue the commit of a valid frame ahead of the
\* released point, and the released point is now the frame's index.
C10_Witness ==
    /\ last.op = "flip"
    /\ ~last.ret
    /\ mbInit
    /\ last.retired.valid
    /\ last.retired.idx >= 1
    /\ Released = last.retired.idx

\* C11: pageFlipEvent() on a handler that is uninitialised or has no commit
\* outstanding changes neither the current frame, the pending frame nor the
\* Timeline, releases no frame and does not notify the display; otherwise
\* it completes the outstanding flip (pending becomes current, one notify).
C11_PageFlipEventNoOp ==
    [][(last'.op = "pageFlipEvent" /\ ~aborted') =>
         IF ~mbInit \/ mpLastFlippedFrame = NULL
         THEN /\ mpCurrentFrame' = mpCurrentFrame
              /\ mpLastFlippedFrame' = mpLastFlippedFrame
              /\ mTimeline' = mTimeline
              /\ last'.released = <<>>
              /\ last'.notified = 0
         ELSE /\ mpCurrentFrame' = mpLastFlippedFrame
              /\ mpLastFlippedFrame' = NULL
              /\ last'.notified = 1]_vars

\* An event reached a handler that was uninitialised with its commit still
\* outstanding, and was ignored.
C11_Witness ==
    /\ last.op = "pageFlipEvent"
    /\ ~mbInit
    /\ mpLastFlippedFrame # NULL
    /\ last.notified = 0
    /\ last.released = <<>>

\* C12: a completion of pending frame P over current frame C releases C to
\* the producer exactly once when C exists and nothing otherwise, moves the
\* released point by the retirement rule (P valid with index >= 1: to
\* max(current, index - 1); P synthetic: to C's index when C is valid and
\* ahead of the released point), makes P the current frame, clears the
\* pending frame and notifies the display exactly once.
C12_CompleteFlip ==
    [][(mpLastFlippedFrame # NULL /\ mpLastFlippedFrame' = NULL) =>
         /\ last'.released = IF mpCurrentFrame # NULL THEN <<mpCurrentFrame>>
                             ELSE <<>>
         /\ last'.notified = 1
         /\ mpCurrentFrame' = mpLastFlippedFrame
         /\ (mpLastFlippedFrame.valid /\ mpLastFlippedFrame.idx >= 1) =>
               mTimeline'.current =
                   Max(mTimeline.current, mpLastFlippedFrame.idx - 1)
         /\ ~mpLastFlippedFrame.valid =>
               mTimeline'.current =
                   IF /\ mpCurrentFrame # NULL
                      /\ mpCurrentFrame.valid
                      /\ mpCurrentFrame.idx > mTimeline.current
                   THEN mpCurrentFrame.idx
                   ELSE mTimeline.current
         /\ mTimeline'.future = mTimeline.future]_vars

\* A completion released the frame that was on screen, moved the released
\* point to just below the new frame and notified the display once.
C12_Witness ==
    /\ last.op = "pageFlipEvent"
    /\ last.notified = 1
    /\ Len(last.released) = 1
    /\ mpLastFlippedFrame = NULL
    /\ mpCurrentFrame # NULL
    /\ mpCurrentFrame.valid
    /\ last.released[1].valid
    /\ last.released[1].idx < mpCurrentFrame.idx
    /\ Released = mpCurrentFrame.idx - 1

\* C13: init() on an uninitialised handler binds Nuclear when it reports
\* support, else SetDisplay when it reports support, else Legacy; Legacy
\* exactly when neither reports support; the plane allocator is disabled
\* when Legacy is bound and left as it was otherwise; readyForFlip() on an
\* initialised handler with no commit outstanding returns true.
C13_InitBindsFirstSupported ==
    [][/\ (last'.op = "init" /\ ~mbInit /\ ~aborted') =>
            /\ mbInit'
            /\ mpImpl' = IF caps.nuclear THEN "Nuclear"
                         ELSE IF caps.setDisplay THEN "SetDisplay"
                         ELSE "Legacy"
            /\ last'.created = mpImpl'
            /\ (mpImpl' = "Legacy") <=> (~caps.nuclear /\ ~caps.setDisplay)
            /\ (mpImpl' = "Legacy") => ~planealloc'
            /\ (mpImpl' # "Legacy") => (planealloc' = planealloc)
       /\ (last'.op = "readyForFlip" /\ mbInit /\ mpLastFlippedFrame = NULL
             /\ ~aborted') => last'.ret]_vars

\* Neither atomic variant is supported, Legacy was bound, the allocator is
\* disabled and readyForFlip() returned true before anything was flipped.
C13_Witness ==
    /\ last.op = "readyForFlip"
    /\ last.ret
    /\ mbInit
    /\ ~caps.nuclear
    /\ ~caps.setDisplay
    /\ mpImpl = "Legacy"
    /\ ~planealloc
    /\ mpCurrentFrame = NULL
    /\ mpLastFlippedFrame = NULL

\* C14: init() on an initialised handler changes nothing: the bound
\* strategy, the main-plane index, the pending frame, the current frame, the
\* Timeline and the plane allocator option stay as they are and no strategy
\* is probed or created, also while a commit is outstanding.
C14_InitIdempotent ==
    [][(last'.op = "init" /\ mbInit /\ ~aborted') =>
         /\ UNCHANGED <<mbInit, mpImpl, mMainPlaneIndex, mpLastFlippedFrame,
                        mpCurrentFrame, mTimeline, planealloc>>
         /\ last'.probed = <<>>
         /\ last'.created = "NULL"]_vars

\* init() was called on an initialised handler whose commit is outstanding.
C14_Witness ==
    /\ last.op = "init"
    /\ last.created = "NULL"
    /\ mbInit
    /\ mpImpl # "NULL"
    /\ mMainPlaneIndex = mainPlaneIndex(caps.planes)
    /\ mpLastFlippedFrame # NULL

\* C15: with every frame carrying an index the Timeline returned, future
\* is never below current.
C15_FutureNotBelowCurrent == mTimeline.future >= mTimeline.current

\* C16: the second of two consecutive registerRepeatFutureFrame() calls
\* returns the index the first returned, and a registerRepeatFutureFrame()
\* call changes neither Timeline.future nor Timeline.current.
C16_RepeatSameIndex ==
    [][(last'.op = "registerRepeatFutureFrame" /\ ~aborted') =>
         /\ mTimeline' = mTimeline
         /\ last'.idx = mTimeline.future
         /\ last.op = "registerRepeatFutureFrame" => last'.idx = last.idx]_vars

\* Two registerRepeatFutureFrame() calls in a row, after a point was
\* allocated: both frames wait in the queue with the same index.
C16_Witness ==
    /\ last.op = "registerRepeatFutureFrame"
    /\ last.again
    /\ Len(queue) = 2
    /\ queue[1] = queue[2]
    /\ last.idx = queue[2]
    /\ last.idx >= 1
    /\ mTimeline.future = last.idx

\* C17: registerNextFutureFrame() increments Timeline.future by one (in
\* uint32_t), returns the new future point and leaves current alone; a
\* fence is resolved when current >= its index, so whenever the fence of
\* index n is resolved the fence of every index below n is resolved.
C17_NextAllocatesNextPoint ==
    /\ [][(last'.op = "registerNextFutureFrame" /\ ~aborted') =>
            /\ mTimeline'.future = U32(mTimeline.future + 1)
            /\ last'.idx = mTimeline'.future
            /\ mTimeline'.current = mTimeline.current]_vars
    /\ [](\A n \in 0 .. UINT32_MAX : \A m \in 0 .. n :
             TimelineResolved(mTimeline, n) => TimelineResolved(mTimeline, m))

\* A point was allocated while the fence of the point before it is already
\* resolved and its own is not.
C17_Witness ==
    /\ last.op = "registerNextFutureFrame"
    /\ last.idx = mTimeline.future
    /\ last.idx >= 2
    /\ TimelineResolved(mTimeline, last.idx - 1)
    /\ ~TimelineResolved(mTimeline, last.idx)

Completes == mpLastFlippedFrame # NULL /\ mpLastFlippedFrame' = NULL

\* C18: the released point never regresses, and a valid frame of index N
\* that a completion replaced on screen has Timeline.current >= N at the
\* end of the next completion at the latest.
C18_ReleasedWithinOneCompletion ==
    [][/\ mTimeline'.current >= mTimeline.current
       /\ (Completes /\ owed # -1) => mTimeline'.current >= owed]_vars

\* C18, amended: the released point never regresses, and a completion of
\* a synthetic frame or of a valid frame with a larger index that replaces a
\* valid frame of index N on screen leaves Timeline.current >= N.
C18_ReleasedWhenIndexSuperseded ==
    [][/\ mTimeline'.current >= mTimeline.current
       /\ (/\ Completes
           /\ mpCurrentFrame # NULL
           /\ mpCurrentFrame.valid
           /\ (~mpLastFlippedFrame.valid
                 \/ mpLastFlippedFrame.idx > mpCurrentFrame.idx))
            => mTimeline'.current >= mpCurrentFrame.idx]_vars

\* A synthetic frame completed over a valid frame and the released point
\* moved up to that frame's index.
C18_Witness ==
    /\ last.op = "pageFlipEvent"
    /\ Len(last.released) = 1
    /\ last.released[1].valid
    /\ last.released[1].idx >= 1
    /\ owed = -1
    /\ mpCurrentFrame # NULL
    /\ ~mpCurrentFrame.valid
    /\ Released = last.released[1].idx

\* C19: an event whose token decodes to no known display, or to the display
\* of an uninitialised handler, changes neither the current frame, the
\* pending frame nor the Timeline, releases nothing and notifies nobody.
C19_StaleTokenDiscarded ==
    [][(/\ last'.op = "event"
        /\ ~aborted'
        /\ (decodeIndex(last'.token) \notin Displays \/ ~mbInit)) =>
         /\ UNCHANGED <<mpCurrentFrame, mpLastFlippedFrame, mTimeline>>
         /\ last'.released = <<>>
         /\ last'.notified = 0]_vars

\* The event of a commit arrived after its handler was uninitialised with
\* the commit still outstanding, and was discarded.
C19_Witness ==
    /\ last.op = "event"
    /\ decodeIndex(last.token) \in Displays
    /\ ~mbInit
    /\ mpLastFlippedFrame # NULL
    /\ last.notified = 0

\* C20: with frames handed over in the order the Timeline issued their
\* indices, no call makes mTimeline.advanceTo(n) with n below
\* Timeline.current; stated for the states in which the released point has
\* not passed the future point.
C20_NoRegressingAdvance ==
    (mTimeline.current <= mTimeline.future) => ~last.regress

\* C21: readyForFlip() returns true exactly when no commit is outstanding
\* as it returns; entered with a commit outstanding for no longer than the
\* timeout it returns false, leaves the pending frame, the current frame and
\* the Timeline as they were, releases nothing and does not notify.
C21_ReadyIffNothingOutstanding ==
    [][(last'.op = "readyForFlip" /\ ~aborted') =>
         /\ last'.ret <=> (mpLastFlippedFrame' = NULL)
         /\ (mpLastFlippedFrame # NULL /\ sinceFlip <= mTimeoutFlip) =>
               /\ ~last'.ret
               /\ UNCHANGED <<mpLastFlippedFrame, mpCurrentFrame, mTimeline>>
               /\ last'.released = <<>>
               /\ last'.notified = 0]_vars

\* readyForFlip() was called exactly at the timeout, over a frame on screen,
\* and returned false with the commit still outstanding.
C21_Witness ==
    /\ last.op = "readyForFlip"
    /\ last.had
    /\ ~last.ret
    /\ sinceFlip = mTimeoutFlip
    /\ mpLastFlippedFrame # NULL
    /\ mpCurrentFrame # NULL
    /\ last.notified = 0
    /\ last.released = <<>>

\* C22: the completion event of the latest commit and the timeout path
\* (readyForFlip, sync) run one after the other under the lock.  A call
\* that finds the commit outstanding either leaves everything as it was or
\* completes it: the frame on screen is released once, the pending frame is
\* promoted and the display is notified once.  A call that finds it
\* completed already changes nothing, releases nothing and does not notify.
C22_CompletedExactlyOnce ==
    [][(/\ last'.op \in {"pageFlipEvent", "readyForFlip", "sync"}
        /\ last'.op = "pageFlipEvent" => last'.commit = serial
        /\ ~aborted') =>
         IF mpLastFlippedFrame = NULL
         THEN /\ UNCHANGED <<mpLastFlippedFrame, mpCurrentFrame, mTimeline>>
              /\ last'.released = <<>>
              /\ last'.notified = 0
         ELSE \/ /\ UNCHANGED <<mpLastFlippedFrame, mpCurrentFrame, mTimeline>>
                 /\ last'.released = <<>>
                 /\ last'.notified = 0
              \/ /\ mpLastFlippedFrame' = NULL
                 /\ mpCurrentFrame' = mpLastFlippedFrame
                 /\ last'.released = IF mpCurrentFrame # NULL
                                     THEN <<mpCurrentFrame>> ELSE <<>>
                 /\ last'.notified = 1]_vars

\* The only commit issued was completed by the timeout and its event came
\* afterwards: the event changed nothing.
C22_Witness ==
    /\ last.op = "pageFlipEvent"
    /\ serial = 1
    /\ last.commit = serial
    /\ events = <<>>
    /\ mbInit
    /\ mpLastFlippedFrame = NULL
    /\ mpCurrentFrame # NULL
    /\ sinceFlip > mTimeoutFlip
    /\ last.released = <<>>
    /\ last.notified = 0

\* C23: a completion event completes only the commit that requested it: a
\* pageFlipEvent() that promotes the pending frame was delivered for the
\* commit of that frame, the latest one issued.
C23_CompletionOfOwnCommit ==
    [][(last'.op = "pageFlipEvent" /\ Completes) => last'.commit = serial]_vars

\* C24: every frame whose flip is issued is issued over no pending frame
\* and becomes the current frame at its completion, which hands the frame
\* it replaces back to the producer once; a frame handed back is, when the
\* call returns, neither the pending nor the current frame.
C24_FrameOwnershipConserved ==
    [][/\ (last'.op = "flip" /\ last'.ret /\ ~aborted') =>
            mpLastFlippedFrame = NULL
       /\ Completes =>
            /\ mpCurrentFrame' = mpLastFlippedFrame
            /\ last'.released = IF mpCurrentFrame # NULL
                                THEN <<mpCurrentFrame>> ELSE <<>>
       /\ ~aborted' =>
            \A i \in 1 .. Len(last'.released) :
                /\ last'.released[i] # mpCurrentFrame'
                /\ last'.released[i] # mpLastFlippedFrame']_vars

\* C25: the completion of a valid frame of index N leaves the released
\* point where it was or moves it to a point below N, also for N = 0.
C25_ReleaseTargetNeverWraps ==
    [][(Completes /\ mpLastFlippedFrame.valid) =>
         \/ mTimeline'.current = mTimeline.current
         \/ mTimeline'.current < mpLastFlippedFrame.idx]_vars
====
